---------------------------- MODULE Spec2Model ----------------------------
(***************************************************************************)
(* Model of the version-interval solver of the API-evolution benchmark:    *)
(*   generate_candidates     (src/scripts/verify_versions.py)              *)
(*   get_version_candidates  (src/scripts/test_ver.py)                     *)
(*                                                                         *)
(* A version string is a sequence of tokens.  A token n >= 0 is a run of   *)
(* decimal digits (the number n); the negative tokens are the separator    *)
(* ".", the pre-release tag "rc" and a letter no version grammar accepts.  *)
(* packaging.version.parse is modelled on the grammar N(.N)*[rc[N]], str   *)
(* on Version as its inverse up to normalisation, and the ordering of      *)
(* Version as packaging's comparison key (release with its trailing zeros  *)
(* stripped, then the pre-release part).  A string outside the grammar     *)
(* makes parse raise InvalidVersion (packaging 22 and later).  Each call   *)
(* is one action; by_major keeps the locals of the group loop.             *)
(*                                                                         *)
(* Further specifications model the evaluation scripts: CppSpec            *)
(* (CPPTest/run_eval.py), EnvSpec (CPPTest/create_envs.py), ScalaSpec      *)
(* (ScalaTest), PySpec (PythonTest write_answer_main) and GenSpec          *)
(* (scripts/cc_vanila_gen.py).  A text there is a sequence of tokens too:  *)
(* a marker, a newline, a blank or a character.                            *)
(***************************************************************************)
EXTENDS Integers, Sequences, FiniteSets

(* ------------------------------ bounds -------------------------------- *)
\* largest major (first release component) of a pair input
MaxMajor == 1
\* largest ordinary release component after the major; MidValue is added
MaxComp == 1
\* most release components of a bound of a pair input
MaxLen == 3
\* most records of a list input
MaxRecords == 2

\* CPPTest run_eval: lines of a dataset, tokens of a starting_code
MaxLines == 2
MaxTemplate == 4
\* PythonTest write_answer_main: lines of a starting_code
MaxPyLines == 4
\* cc_vanila_gen generate_single_library: entries processed (limit)
MaxEntries == 2
\* ScalaTest run_eval: items of a dataset
MaxItems == 2

(* ------------------------------ tokens -------------------------------- *)
\* "." between release components
Dot == -1
\* the pre-release tag "rc"
RC == -2
\* a letter that makes the string unparseable ("abc")
Junk == -3
\* the token of the value None (entry.get(key) of a missing key)
NoneTok == -4
\* the component appended when the gap is 1
MidValue == 5
\* the markers '// SOLUTION_START' and '// SOLUTION_END', and "\n", as tokens of a text
CppStart == -5
CppEnd == -6
NL == -7
\* the markers '# SOLUTION_START' and '# SOLUTION_END', and " "
PyStart == -8
PyEnd == -9
Space == -10
\* mid_parts longer than this lose their trailing zeros (verify_versions)
TrimLen == 3

PyNone == <<NoneTok>>

(* --------------------------- sequences -------------------------------- *)
Range(s) == {s[i] : i \in DOMAIN s}

Zeros(n) == [i \in 1..n |-> 0]

\* Python's < on tuples, lists and strings: lexicographic, a proper prefix first
LexLess(a, b) ==
    \E i \in 1..(Len(a) + 1) :
        /\ i <= Len(b)
        /\ \A k \in 1..(i - 1) : a[k] = b[k]
        /\ (i = Len(a) + 1 \/ a[i] < b[i])

RECURSIVE Digits(_)
Digits(n) == IF n < 10 THEN <<48 + n>> ELSE Digits(n \div 10) \o <<48 + (n % 10)>>

\* the characters (code points) of one token
TokChars(t) ==
    IF t >= 0 THEN Digits(t)
    ELSE IF t = Dot THEN <<46>>
    ELSE IF t = RC THEN <<114, 99>>
    ELSE <<120>>

RECURSIVE Chars(_)
Chars(s) == IF s = <<>> THEN <<>> ELSE TokChars(Head(s)) \o Chars(Tail(s))

\* str < str
StrLess(a, b) == LexLess(Chars(a), Chars(b))

(* ------------------------ packaging.version --------------------------- *)
\* ".".join(map(str, parts))
Join(parts) ==
    [i \in 1..(2 * Len(parts) - 1) |-> IF i % 2 = 1 THEN parts[(i + 1) \div 2] ELSE Dot]

RCPos(s) == IF \E i \in DOMAIN s : s[i] = RC
            THEN CHOOSE i \in DOMAIN s : s[i] = RC /\ \A k \in 1..(i - 1) : s[k] # RC
            ELSE 0

ReleasePart(s) == LET k == RCPos(s) IN IF k = 0 THEN s ELSE SubSeq(s, 1, k - 1)

PrePart(s) == LET k == RCPos(s) IN IF k = 0 THEN <<>> ELSE SubSeq(s, k + 1, Len(s))

\* parse_version(s) does not raise InvalidVersion
ParseOK(s) ==
    LET rel == ReleasePart(s)
        pre == PrePart(s)
    IN  /\ Len(rel) % 2 = 1
        /\ \A i \in DOMAIN rel : IF i % 2 = 1 THEN rel[i] >= 0 ELSE rel[i] = Dot
        /\ Len(pre) <= 1
        /\ \A i \in DOMAIN pre : pre[i] >= 0

\* parse_version(s), for a string it accepts: the release tuple as written and
\* the pre-release number (<<>> for a final release; "rc" alone is rc0)
parse_version(s) ==
    LET rel == ReleasePart(s)
        pre == PrePart(s)
    IN  [release |-> [i \in 1..((Len(rel) + 1) \div 2) |-> rel[2 * i - 1]],
         pre |-> IF RCPos(s) = 0 THEN <<>> ELSE IF pre = <<>> THEN <<0>> ELSE pre]

\* mutant: the pre-release test never fires
is_prerelease_Never(v) == FALSE

is_prerelease(v) == v.pre # <<>>

\* str(v)
Str(v) == Join(v.release) \o (IF v.pre = <<>> THEN <<>> ELSE <<RC, v.pre[1]>>)

RECURSIVE StripZeros(_)
StripZeros(r) ==
    IF r # <<>> /\ r[Len(r)] = 0 THEN StripZeros(SubSeq(r, 1, Len(r) - 1)) ELSE r

\* Version.__lt__: the comparison key is the release without trailing zeros, then
\* the pre-release part, where a final release sorts after every pre-release
VLess(a, b) ==
    LET ra == StripZeros(a.release)
        rb == StripZeros(b.release)
    IN  \/ LexLess(ra, rb)
        \/ /\ ra = rb
           /\ a.pre # <<>>
           /\ (b.pre = <<>> \/ a.pre[1] < b.pre[1])

get_major(v) == IF v.release # <<>> THEN v.release[1] ELSE 0

\* min(group): the first element no later element is smaller than
RECURSIVE MinFrom(_, _, _)
MinFrom(group, i, cur) ==
    IF i > Len(group) THEN cur
    ELSE MinFrom(group, i + 1, IF VLess(group[i], cur) THEN group[i] ELSE cur)

PyMin(group) == MinFrom(group, 2, group[1])

RECURSIVE MaxFrom(_, _, _)
MaxFrom(group, i, cur) ==
    IF i > Len(group) THEN cur
    ELSE MaxFrom(group, i + 1, IF VLess(cur, group[i]) THEN group[i] ELSE cur)

PyMax(group) == MaxFrom(group, 2, group[1])


(* ------------------- extraction of the bounds -------------------------- *)
\* mutant: the pre-release test is left out
TryParse_KeepPre(s) ==
    IF s = PyNone \/ s = <<>> THEN [vs |-> <<>>, exc |-> FALSE]
    ELSE IF ~ParseOK(s) THEN [vs |-> <<>>, exc |-> FALSE]
    ELSE [vs |-> <<parse_version(s)>>, exc |-> FALSE]

\* mutant: no try/except around parse_version
TryParse_NoExcept(s) ==
    IF s = PyNone \/ s = <<>> THEN [vs |-> <<>>, exc |-> FALSE]
    ELSE IF ~ParseOK(s) THEN [vs |-> <<>>, exc |-> TRUE]
    ELSE IF is_prerelease(parse_version(s)) THEN [vs |-> <<>>, exc |-> FALSE]
    ELSE [vs |-> <<parse_version(s)>>, exc |-> FALSE]

\* the body of the inner loop for one bound string (both scripts): None and ""
\* are skipped, a string that does not parse is dropped by the bare except, a
\* pre-release is not appended.  vs: what is appended; exc: an exception escapes
TryParse(s) ==
    IF s = PyNone \/ s = <<>> THEN [vs |-> <<>>, exc |-> FALSE]
    ELSE IF ~ParseOK(s) THEN [vs |-> <<>>, exc |-> FALSE]
    ELSE IF is_prerelease(parse_version(s)) THEN [vs |-> <<>>, exc |-> FALSE]
    ELSE [vs |-> <<parse_version(s)>>, exc |-> FALSE]

\* for entry in data: for key in ['deprecated_in', 'removed_in']
RECURSIVE Extract(_)
Extract(d) ==
    IF d = <<>> THEN [vs |-> <<>>, exc |-> FALSE]
    ELSE LET a == TryParse(Head(d).deprecated_in)
             b == TryParse(Head(d).removed_in)
             r == Extract(Tail(d))
         IN  [vs |-> a.vs \o b.vs \o r.vs, exc |-> a.exc \/ b.exc \/ r.exc]

\* mutant: every major gets all the versions
GroupByMajor_All(versions) ==
    [m \in {get_major(versions[i]) : i \in DOMAIN versions} |-> versions]

\* by_major: each major that occurs, with its versions in input order
GroupByMajor(versions) ==
    [m \in {get_major(versions[i]) : i \in DOMAIN versions} |->
        SelectSeq(versions, LAMBDA v : get_major(v) = m)]

(* ------------------- the below-minimum candidate ----------------------- *)
\* mutant: the scan stops at the last component without testing parts[i] > 0
ScanDown_NoTest(parts, i) == i

\* for i in range(len(parts)-1, -1, -1): if parts[i] > 0: ... break
RECURSIVE ScanDown(_, _)
ScanDown(parts, i) ==
    IF i < 1 THEN 0 ELSE IF parts[i] > 0 THEN i ELSE ScanDown(parts, i - 1)

\* mutant: the parts are joined before the decrement
PreMin_NoDecrement(parts) ==
    LET i == ScanDown(parts, Len(parts))
    IN  IF i = 0 THEN PyNone ELSE Join(parts)

\* mutant: pre_min_parts = parts[:i+1] is joined instead of parts
PreMin_Truncate(parts) ==
    LET i == ScanDown(parts, Len(parts))
    IN  IF i = 0 THEN PyNone ELSE Join(SubSeq([parts EXCEPT ![i] = @ - 1], 1, i))

\* pre_min of generate_candidates: the joined parts with the found component
\* one less, None when no component is positive
PreMin(parts) ==
    LET i == ScanDown(parts, Len(parts))
    IN  IF i = 0 THEN PyNone ELSE Join([parts EXCEPT ![i] = @ - 1])

\* pre_min of get_version_candidates: the same scan under "if min_v.release:"
PreMinTestVer(parts) ==
    IF parts = <<>> THEN PyNone
    ELSE LET i == ScanDown(parts, Len(parts))
         IN  IF i = 0 THEN PyNone ELSE Join([parts EXCEPT ![i] = @ - 1])

(* ------------------------ the midpoint --------------------------------- *)
Pad(r, n) == r \o Zeros(n - Len(r))

LenMax(min_v, max_v) ==
    IF Len(min_v.release) >= Len(max_v.release) THEN Len(min_v.release)
    ELSE Len(max_v.release)

\* for i in range(len_max): if p_min[i] != p_max[i]: ... break   (0: no such index)
FirstDiff(p, q) ==
    IF \E i \in DOMAIN p : p[i] # q[i]
    THEN CHOOSE i \in DOMAIN p : p[i] # q[i] /\ \A k \in 1..(i - 1) : p[k] = q[k]
    ELSE 0

\* while len(mid_parts) > 3 and mid_parts[-1] == 0: mid_parts.pop()
RECURSIVE Trim(_)
Trim(parts) ==
    IF Len(parts) > TrimLen /\ parts[Len(parts)] = 0
    THEN Trim(SubSeq(parts, 1, Len(parts) - 1)) ELSE parts

\* mutant: the gap-1 branch extends the maximum's components instead of the minimum's
MidVerify_FromMax(min_v, max_v) ==
    LET n == LenMax(min_v, max_v)
        p_min == Pad(min_v.release, n)
        p_max == Pad(max_v.release, n)
        i == FirstDiff(p_min, p_max)
        diff == p_max[i] - p_min[i]
    IN  IF i = 0 THEN PyNone
        ELSE IF diff > 1
             THEN Join(Trim([k \in 1..n |->
                               IF k < i THEN p_min[k]
                               ELSE IF k = i THEN p_min[i] + diff \div 2
                               ELSE 0]))
             ELSE Join(Trim(SubSeq(p_max, 1, i) \o <<MidValue>>))

\* mutant: the components after the differing index are not zeroed
MidVerify_NoZero(min_v, max_v) ==
    LET n == LenMax(min_v, max_v)
        p_min == Pad(min_v.release, n)
        p_max == Pad(max_v.release, n)
        i == FirstDiff(p_min, p_max)
        diff == p_max[i] - p_min[i]
    IN  IF i = 0 THEN PyNone
        ELSE IF diff > 1
             THEN Join(Trim([p_min EXCEPT ![i] = @ + diff \div 2]))
             ELSE Join(Trim(SubSeq(p_min, 1, i) \o <<MidValue>>))

\* verify_versions.py, "3. Mid": mid_v, or None when no index differs
MidVerify(min_v, max_v) ==
    LET n == LenMax(min_v, max_v)
        p_min == Pad(min_v.release, n)
        p_max == Pad(max_v.release, n)
        i == FirstDiff(p_min, p_max)
        diff == p_max[i] - p_min[i]
    IN  IF i = 0 THEN PyNone
        ELSE IF diff > 1
             THEN Join(Trim(SubSeq(p_min, 1, i - 1) \o <<p_min[i] + diff \div 2>>
                            \o Zeros(n - i)))
             ELSE Join(Trim(SubSeq(p_min, 1, i) \o <<MidValue>>))

\* mutant: the average is rounded up
MidTestVer_Ceil(min_v, max_v) ==
    LET n == LenMax(min_v, max_v)
        min_parts == Pad(min_v.release, n)
        max_parts == Pad(max_v.release, n)
        diff_index == FirstDiff(min_parts, max_parts)
        val_min == min_parts[diff_index]
        val_max == max_parts[diff_index]
    IN  IF diff_index = 0 THEN PyNone
        ELSE IF val_max - val_min > 1
             THEN Join([k \in 1..n |->
                          IF k < diff_index THEN min_parts[k]
                          ELSE IF k = diff_index THEN (val_min + val_max + 1) \div 2
                          ELSE 0])
             ELSE PyNone

\* test_ver.py, "3. Between": mid_ver, or None; the gap-1 branch ends in pass
MidTestVer(min_v, max_v) ==
    LET n == LenMax(min_v, max_v)
        min_parts == Pad(min_v.release, n)
        max_parts == Pad(max_v.release, n)
        diff_index == FirstDiff(min_parts, max_parts)
        val_min == min_parts[diff_index]
        val_max == max_parts[diff_index]
    IN  IF diff_index = 0 THEN PyNone
        ELSE IF val_max - val_min > 1
             THEN Join([k \in 1..n |->
                          IF k < diff_index THEN min_parts[k]
                          ELSE IF k = diff_index THEN (val_min + val_max) \div 2
                          ELSE 0])
             ELSE PyNone

(* -------------------- one iteration of the group loop ------------------ *)
\* the locals of generate_candidates at the end of the iteration for one group
GroupVerify(group) ==
    LET min_v == PyMin(group)
        max_v == PyMax(group)
    IN  [min_v |-> min_v, max_v |-> max_v,
         pre_min |-> PreMin(min_v.release),
         mid |-> IF VLess(min_v, max_v) THEN MidVerify(min_v, max_v) ELSE PyNone]

\* the locals of get_version_candidates at the end of the iteration for one group
GroupTestVer(group) ==
    LET min_v == PyMin(group)
        max_v == PyMax(group)
    IN  [min_v |-> min_v, max_v |-> max_v,
         pre_min |-> PreMinTestVer(min_v.release),
         mid |-> IF VLess(min_v, max_v) THEN MidTestVer(min_v, max_v) ELSE PyNone]

Opt(s) == IF s = PyNone THEN {} ELSE {s}

\* mutant: str(max_v) is not added
AddedVerify_NoMax(g) == {Str(g.min_v)} \cup Opt(g.pre_min) \cup Opt(g.mid)

\* what generate_candidates adds to final_candidates for one group
AddedVerify(g) == {Str(g.min_v), Str(g.max_v)} \cup Opt(g.pre_min) \cup Opt(g.mid)

\* mutant: str(min_v) is added as in generate_candidates
AddedTestVer_WithMin(g) == {Str(g.min_v), Str(g.max_v)} \cup Opt(g.pre_min) \cup Opt(g.mid)

\* what get_version_candidates adds to candidates for one group
AddedTestVer(g) == {Str(g.max_v)} \cup Opt(g.pre_min) \cup Opt(g.mid)

(* --------------------------- the return -------------------------------- *)
\* sorted(list(final_candidates), key=lambda x: parse_version(x)): the set is
\* listed in an order the string hashes of the process decide, and the stable
\* sort keeps that order among strings whose keys are equal; every list the
\* call can return
RECURSIVE SortedKeyed(_)
SortedKeyed(K) ==
    IF K = {} THEN {<<>>}
    ELSE UNION {{<<x[1]>> \o r : r \in SortedKeyed(K \ {x})} :
                x \in {y \in K : \A z \in K : ~VLess(z[2], y[2])}}

\* mutant: sorted(..., reverse=True)
SortedByKey_Reverse(S) ==
    {[i \in DOMAIN r |-> r[Len(r) + 1 - i]] : r \in SortedKeyed({<<x, parse_version(x)>> : x \in S})}

SortedByKey(S) == SortedKeyed({<<x, parse_version(x)>> : x \in S})

\* sorted(list(candidates)): distinct strings in string order
RECURSIVE SortedChars(_)
SortedChars(K) ==
    IF K = {} THEN <<>>
    ELSE LET x == CHOOSE y \in K : \A z \in K \ {y} : LexLess(y[2], z[2])
         IN  <<x[1]>> \o SortedChars(K \ {x})

SortedByStr(S) == SortedChars({<<x, Chars(x)>> : x \in S})

(* ----------------------------- inputs ---------------------------------- *)
Comps == (0..MaxComp) \cup {MidValue}

\* the release components after the major
Tails == UNION {[1..n -> Comps] : n \in 0..(MaxLen - 1)}

Record(lo, hi) == [deprecated_in |-> lo, removed_in |-> hi]

\* one record whose two bounds are final releases of one major
PairData ==
    {<<Record(Join(<<j>> \o a), Join(<<j>> \o b))>> : j \in 0..MaxMajor, a \in Tails, b \in Tails}

\* deprecated_in of a list input: None, "abc", "1.1rc1", "1.0.0"
LowerPool == {PyNone, <<Junk>>, <<1, Dot, 1, RC, 1>>, <<1, Dot, 0, Dot, 0>>}

\* removed_in of a list input: "", "abc", "1.2", "2.0"
UpperPool == {<<>>, <<Junk>>, <<1, Dot, 2>>, <<2, Dot, 0>>}

\* up to MaxRecords records over the pools
ListData ==
    UNION {[1..n -> {Record(lo, hi) : lo \in LowerPool, hi \in UpperPool}] : n \in 0..MaxRecords}

\* one record whose bounds have one component more than TrimLen
LongData ==
    {<<Record(Join(<<MaxMajor>> \o a), Join(<<MaxMajor>> \o b))>> :
        a \in [1..TrimLen -> Comps], b \in [1..TrimLen -> Comps]}

\* one record whose bounds have one- and two-digit components: 1.9.x, 1.10.x
WideData ==
    {<<Record(Join(<<1, a, b>>), Join(<<1, c, d>>))>> :
        a \in {9, 10}, c \in {9, 10}, b \in {0, 1}, d \in {0, 1}}

\* the test data of the two scripts
ScriptData ==
    {<<Record(Join(<<1, 2, 0>>), Join(<<1, 6, 0>>)), Record(Join(<<2, 0, 0>>), Join(<<2, 2, 0>>))>>,
     <<Record(Join(<<1, 0, 0>>), Join(<<1, 1, 0>>))>>,
     <<Record(Join(<<3, 0, 0>>), Join(<<3, 0, 1>>))>>,
     <<Record(Join(<<1, 2, 0>>), Join(<<1, 6, 0>>)), Record(Join(<<1, 3, 0>>), Join(<<1, 6, 0>>)),
       Record(Join(<<2, 0, 0>>), Join(<<2, 1, 0>>)), Record(Join(<<1, 2, 0>>), Join(<<1, 2, 0>>))>>}

\* a single version 1.2.0; two majors whose candidates meet in the string "1.0"
ExampleData ==
    {<<Record(Join(<<1, 2, 0>>), Join(<<1, 2, 0>>))>>,
     <<Record(Join(<<1, 0>>), Join(<<2, 0>>))>>}

(* ------------------------------ state ---------------------------------- *)
VARIABLES
    data,        \* the argument: a list of records
    pc,          \* "ready": not called yet; "returned"; "raised"
    fn,          \* the function that was called
    by_major,    \* major -> the locals min_v, max_v, pre_min, mid of its iteration
    candidates,  \* final_candidates / candidates when the loop is over
    result,      \* the returned list
    args,        \* two invocations at once: the list objects that can be passed
    frame,       \* invocation -> its function, argument, position, loop index, return
    cells        \* the list objects that hold "versions"

\* CPPTest/run_eval.py
VARIABLES
    lines,       \* the lines of dataset.jsonl
    lineno,      \* how many of them main has read
    results,     \* main: status -> count
    total,       \* main: total
    mpc,         \* main: "loop", "done" (summary printed), "crashed" (an exception escaped)
    last         \* the last evaluate_entry that returned: what it saw and what it returned

\* CPPTest/create_envs.py
VARIABLES
    elines,      \* the lines of dataset.jsonl
    eno,         \* how many of them main has read
    seen,        \* main: seen
    created,     \* the calls of create_env, in order
    epc          \* main: "loop", "done", "crashed"

\* ScalaTest/run_eval.py and create_envs.py
VARIABLES
    sitems,      \* the items of the dataset
    env_map,     \* create_envs: the names in env_map
    sno,         \* how many items the running loop has read
    spc,         \* "create" (in create_envs), "eval" (in the loop of main), "done", "crashed"
    env_name     \* main: the name computed for the last item read

\* PythonTest/run_eval.py, write_answer_main
VARIABLES
    wcode,       \* the argument starting_code
    wsol,        \* the argument solution
    written,        \* the lines of main.py
    wpc             \* "ready", "written"

\* scripts/cc_vanila_gen.py, generate_single_library
VARIABLES
    llm,         \* what prompt_llm does for each entry, in order
    gno,         \* how many entries have been processed
    out_f,       \* the lines of the dataset file
    gt_f,        \* the lines of the ground-truth file
    gpc          \* "loop", "done"

solverVars == <<data, pc, fn, by_major, candidates, result>>
concVars == <<args, frame, cells>>
cppVars == <<lines, lineno, results, total, mpc, last>>
envVars == <<elines, eno, seen, created, epc>>
scalaVars == <<sitems, env_map, sno, spc, env_name>>
pyVars == <<wcode, wsol, written, wpc>>
genVars == <<llm, gno, out_f, gt_f, gpc>>
toolVars == <<cppVars, envVars, scalaVars, pyVars, genVars>>
vars == <<solverVars, concVars, toolVars>>

Invocations == {1, 2}
Idle == [fn |-> "none", ref |-> 1, arg0 |-> <<>>, pc |-> "idle", i |-> 1, out |-> <<>>]

Statuses == {"PASS", "FAIL_COMPILE", "FAIL_RUNTIME", "FAIL_OUTPUT", "SKIP", "ERROR"}

NoEntry == [status |-> "none", compile_rc |-> 0, run_rc |-> 0, ran |-> FALSE,
            stdout |-> <<>>, expected |-> <<>>, starting_code |-> <<>>,
            solution |-> <<>>, full_code |-> <<>>]

\* no call of the solver
SolverIdle ==
    /\ data = <<>>
    /\ pc = "ready"
    /\ fn = "none"
    /\ by_major = <<>>
    /\ candidates = {}
    /\ result = <<>>

\* no concurrent invocation
ConcIdle ==
    /\ args = [r \in Invocations |-> <<>>]
    /\ frame = [p \in Invocations |-> Idle]
    /\ cells = [c \in Invocations |-> <<>>]

\* CPPTest run_eval not started, no dataset
CppIdle ==
    /\ lines = <<>>
    /\ lineno = 0
    /\ results = [s \in Statuses |-> 0]
    /\ total = 0
    /\ mpc = "loop"
    /\ last = NoEntry

\* CPPTest create_envs not started, no dataset
EnvIdle ==
    /\ elines = <<>>
    /\ eno = 0
    /\ seen = {}
    /\ created = <<>>
    /\ epc = "loop"

\* ScalaTest run_eval not started, no dataset
ScalaIdle ==
    /\ sitems = <<>>
    /\ env_map = {}
    /\ sno = 0
    /\ spc = "create"
    /\ env_name = <<>>

\* write_answer_main not called
PyIdle ==
    /\ wcode = <<>>
    /\ wsol = <<>>
    /\ written = <<>>
    /\ wpc = "ready"

\* generate_single_library not started
GenIdle ==
    /\ llm = <<>>
    /\ gno = 0
    /\ out_f = <<>>
    /\ gt_f = <<>>
    /\ gpc = "loop"

ToolsIdle == CppIdle /\ EnvIdle /\ ScalaIdle /\ PyIdle /\ GenIdle

Init ==
    /\ ToolsIdle
    /\ data \in PairData \cup ListData \cup LongData \cup WideData \cup ScriptData \cup ExampleData
    /\ pc = "ready"
    /\ fn = "none"
    /\ by_major = <<>>
    /\ candidates = {}
    /\ result = <<>>
    /\ args = [r \in Invocations |-> <<>>]
    /\ frame = [p \in Invocations |-> Idle]
    /\ cells = [c \in Invocations |-> <<>>]

\* the return statement of generate_candidates: every list it can return ({}
\* when parse_version in the sort key raises on a candidate)
ReturnsVerify(cands) ==
    IF \E c \in cands : ~ParseOK(c) THEN {} ELSE SortedByKey(cands)

LocalsVerify(versions) ==
    LET groups == GroupByMajor(versions)
    IN  [m \in DOMAIN groups |-> GroupVerify(groups[m])]

LocalsTestVer(versions) ==
    LET groups == GroupByMajor(versions)
    IN  [m \in DOMAIN groups |-> GroupTestVer(groups[m])]

CandidatesVerify(loc) == UNION {AddedVerify(loc[m]) : m \in DOMAIN loc}

CandidatesTestVer(loc) == UNION {AddedTestVer(loc[m]) : m \in DOMAIN loc}

\* every list generate_candidates(d) can return; {} when an exception escapes
CallVerify(d) ==
    LET ex == Extract(d)
    IN  IF ex.exc THEN {} ELSE ReturnsVerify(CandidatesVerify(LocalsVerify(ex.vs)))

\* a list of strings in string order, equal strings kept
RECURSIVE SortSeqByStr(_)
SortSeqByStr(s) ==
    IF s = <<>> THEN <<>>
    ELSE LET i == CHOOSE k \in DOMAIN s : \A j \in DOMAIN s : ~StrLess(s[j], s[k])
         IN  <<s[i]>> \o SortSeqByStr(SubSeq(s, 1, i - 1) \o SubSeq(s, i + 1, Len(s)))

RECURSIVE ConcatAdded(_, _)
ConcatAdded(loc, M) ==
    IF M = {} THEN <<>>
    ELSE LET m == CHOOSE x \in M : \A y \in M : x <= y
         IN  SortedByStr(AddedTestVer(loc[m])) \o ConcatAdded(loc, M \ {m})

\* mutant: candidates is a list, so a string added for two groups stays twice
CallTestVer_List(d) ==
    LET ex == Extract(d)
        loc == LocalsTestVer(ex.vs)
    IN  IF ex.exc THEN {} ELSE {SortSeqByStr(ConcatAdded(loc, DOMAIN loc))}

\* every list get_version_candidates(d) can return; {} when an exception escapes
CallTestVer(d) ==
    LET ex == Extract(d)
    IN  IF ex.exc THEN {} ELSE {SortedByStr(CandidatesTestVer(LocalsTestVer(ex.vs)))}

\* verify_versions.generate_candidates(data), the whole call
generate_candidates ==
    /\ pc = "ready"
    /\ fn' = "generate_candidates"
    /\ LET loc == LocalsVerify(Extract(data).vs)
           rets == CallVerify(data)
       IN  /\ by_major' = loc
           /\ candidates' = CandidatesVerify(loc)
           /\ IF rets = {}
              THEN result' = <<>> /\ pc' = "raised"
              ELSE pc' = "returned" /\ result' \in rets
    /\ UNCHANGED <<data, concVars, toolVars>>

\* test_ver.get_version_candidates(data), the whole call
get_version_candidates ==
    /\ pc = "ready"
    /\ fn' = "get_version_candidates"
    /\ LET loc == LocalsTestVer(Extract(data).vs)
           rets == CallTestVer(data)
       IN  /\ by_major' = loc
           /\ candidates' = CandidatesTestVer(loc)
           /\ IF rets = {}
              THEN result' = <<>> /\ pc' = "raised"
              ELSE pc' = "returned" /\ result' \in rets
    /\ UNCHANGED <<data, concVars, toolVars>>

Next == generate_candidates \/ get_version_candidates

Spec == Init /\ [][Next]_vars

(* -------------------- two invocations at once -------------------------- *)
\* the lists passed to the two invocations: one record, two records, none
ConcData ==
    {<<Record(<<1, Dot, 0, Dot, 0>>, <<1, Dot, 2>>)>>,
     <<Record(<<1, Dot, 1, RC, 1>>, <<2, Dot, 0>>), Record(<<1, Dot, 0, Dot, 0>>, <<Junk>>)>>,
     <<>>}

\* mutant: versions is one module-level list that every call appends to
VersionsOf_Shared(p) == 1

\* "versions = []" inside the function: each call binds a list of its own
VersionsOf(p) == p

ConcInit ==
    /\ ToolsIdle
    /\ data = <<>>
    /\ pc = "ready"
    /\ fn = "none"
    /\ by_major = <<>>
    /\ candidates = {}
    /\ result = <<>>
    /\ args \in [Invocations -> ConcData]
    /\ frame = [p \in Invocations |-> Idle]
    /\ cells = [c \in Invocations |-> <<>>]

\* invocation p is called with the list object r; "versions = []"
Call(p) ==
    /\ frame[p].pc = "idle"
    /\ \E f \in {"generate_candidates", "get_version_candidates"} : \E r \in DOMAIN args :
          frame' = [frame EXCEPT ![p] =
                      [fn |-> f, ref |-> r, arg0 |-> args[r], pc |-> "extract", i |-> 1, out |-> <<>>]]
    /\ cells' = [cells EXCEPT ![VersionsOf(p)] = <<>>]
    /\ UNCHANGED <<data, pc, fn, by_major, candidates, result, args, toolVars>>

\* one iteration of "for item in data" / "for entry in data": both keys are read
\* and what parses to a final release is appended to versions
ExtractEntry(p) ==
    /\ frame[p].pc = "extract"
    /\ frame[p].i <= Len(args[frame[p].ref])
    /\ LET item == args[frame[p].ref][frame[p].i]
           a == TryParse(item.deprecated_in)
           b == TryParse(item.removed_in)
       IN  /\ cells' = [cells EXCEPT ![VersionsOf(p)] = @ \o a.vs \o b.vs]
           /\ frame' = [frame EXCEPT ![p].i = @ + 1,
                                     ![p].pc = IF a.exc \/ b.exc THEN "raised" ELSE "extract"]
    /\ UNCHANGED <<data, pc, fn, by_major, candidates, result, args, toolVars>>

\* the rest of the call once the loop is over: group, build the candidates, sort
Solve(p) ==
    /\ frame[p].pc = "extract"
    /\ frame[p].i > Len(args[frame[p].ref])
    /\ LET versions == cells[VersionsOf(p)]
           rets == IF frame[p].fn = "generate_candidates"
                   THEN ReturnsVerify(CandidatesVerify(LocalsVerify(versions)))
                   ELSE {SortedByStr(CandidatesTestVer(LocalsTestVer(versions)))}
       IN  IF rets = {}
           THEN frame' = [frame EXCEPT ![p].pc = "raised"]
           ELSE \E r \in rets : frame' = [frame EXCEPT ![p].pc = "done", ![p].out = r]
    /\ UNCHANGED <<data, pc, fn, by_major, candidates, result, args, cells, toolVars>>

ConcNext == \E p \in Invocations : Call(p) \/ ExtractEntry(p) \/ Solve(p)

ConcSpec == ConcInit /\ [][ConcNext]_vars

(* ---------------------- CPPTest/run_eval.py ---------------------------- *)
\* a text is a sequence of tokens: a marker, "\n", or a character 1, 2, ...
Has(s, m) == \E i \in DOMAIN s : s[i] = m
FirstPos(s, m) == IF Has(s, m) THEN CHOOSE i \in DOMAIN s : s[i] = m /\ \A k \in 1..(i - 1) : s[k] # m
                  ELSE 0
\* s.split(m)[0] and the text after the first m
UpTo(s, m) == IF Has(s, m) THEN SubSeq(s, 1, FirstPos(s, m) - 1) ELSE s
After(s, m) == SubSeq(s, FirstPos(s, m) + 1, Len(s))

\* s.replace(m, by)
RECURSIVE Replace(_, _, _)
Replace(s, m, by) ==
    IF s = <<>> THEN <<>>
    ELSE (IF Head(s) = m THEN by ELSE <<Head(s)>>) \o Replace(Tail(s), m, by)

\* s.strip()
RECURSIVE Strip(_)
Strip(s) ==
    IF s = <<>> THEN <<>>
    ELSE IF Head(s) = NL THEN Strip(Tail(s))
    ELSE IF s[Len(s)] = NL THEN Strip(SubSeq(s, 1, Len(s) - 1))
    ELSE s

\* exp in output
Contains(output, exp) ==
    \E i \in 0..(Len(output) - Len(exp)) : SubSeq(output, i + 1, i + Len(exp)) = exp

\* evaluate_entry, "Prepare source code": full_code, or IndexError when the
\* piece after the first start marker holds no end marker
Inject(starting_code, solution) ==
    IF Has(starting_code, CppStart) /\ Has(starting_code, CppEnd)
    THEN LET prefix == UpTo(starting_code, CppStart)
             part1 == UpTo(After(starting_code, CppStart), CppStart)
         IN  IF ~Has(part1, CppEnd)
             THEN [raised |-> TRUE, full_code |-> <<>>]
             ELSE [raised |-> FALSE,
                   full_code |-> prefix \o <<NL>> \o solution \o <<NL>>
                                    \o UpTo(After(part1, CppEnd), CppEnd)]
    ELSE [raised |-> FALSE,
          full_code |-> Replace(Replace(starting_code, CppStart, solution), CppEnd, <<>>)]

\* run_command(cmd, capture=True): check=False, so the exit code raises nothing
\* evaluate_entry(entry) when g++ exits with crc and the program with rrc,
\* printing out
evaluate_entry(entry, crc, rrc, out) ==
    LET inj == Inject(entry.starting_code, entry.solution)
        output == Strip(out)
        passed == \A k \in DOMAIN entry.expected : Contains(output, entry.expected[k])
        base == [NoEntry EXCEPT !.starting_code = entry.starting_code,
                                !.solution = entry.solution,
                                !.expected = entry.expected]
    IN  IF entry.language # "C++" THEN [raised |-> FALSE, r |-> [base EXCEPT !.status = "SKIP"]]
        ELSE IF ~entry.env THEN [raised |-> FALSE, r |-> [base EXCEPT !.status = "ERROR"]]
        ELSE IF inj.raised THEN [raised |-> TRUE, r |-> base]
        ELSE IF crc # 0
             THEN [raised |-> FALSE,
                   r |-> [base EXCEPT !.status = "FAIL_COMPILE", !.compile_rc = crc,
                                      !.full_code = inj.full_code]]
        ELSE [raised |-> FALSE,
              r |-> [base EXCEPT !.status = IF passed THEN "PASS" ELSE "FAIL_OUTPUT",
                                 !.compile_rc = crc, !.run_rc = rrc, !.ran = TRUE,
                                 !.stdout = out, !.full_code = inj.full_code]]

Line(kind, language, env, starting_code, expected) ==
    [kind |-> kind, language |-> language, env |-> env, starting_code |-> starting_code,
     solution |-> <<2>>, expected |-> expected]

\* lines of a dataset: blank, not JSON, JSON but no object, and entries
LinePool ==
    {Line("blank", "", FALSE, <<>>, <<>>),
     Line("bad", "", FALSE, <<>>, <<>>),
     Line("scalar", "", FALSE, <<>>, <<>>),
     Line("entry", "Python", TRUE, <<>>, <<>>),
     Line("entry", "C++", FALSE, <<>>, <<>>),
     Line("entry", "C++", TRUE, <<1, NL, CppStart, NL, CppEnd, NL, 1>>, <<<<1>>, <<2>>>>),
     Line("entry", "C++", TRUE, <<1, CppEnd, CppStart>>, <<>>)}

\* texts of up to MaxTemplate tokens over the two markers and a character
Templates == UNION {[1..n -> {CppStart, CppEnd, 1}] : n \in 0..MaxTemplate}

CppData ==
    UNION {[1..n -> LinePool] : n \in 0..MaxLines}
        \cup {<<Line("entry", "C++", TRUE, s, <<>>)>> : s \in Templates}

\* what the compiled program can print
Stdouts == {<<>>, <<1, NL>>, <<1, 2, NL>>}

CppInit ==
    /\ SolverIdle
    /\ ConcIdle
    /\ EnvIdle /\ ScalaIdle /\ PyIdle /\ GenIdle
    /\ lines \in CppData
    /\ lineno = 0
    /\ results = [s \in Statuses |-> 0]
    /\ total = 0
    /\ mpc = "loop"
    /\ last = NoEntry

\* main: one iteration of "for line in f"
ProcessLine ==
    /\ mpc = "loop"
    /\ lineno < Len(lines)
    /\ lineno' = lineno + 1
    /\ LET line == lines[lineno + 1]
       IN  IF line.kind \in {"blank", "bad"}
           THEN UNCHANGED <<results, total, mpc, last>>
           ELSE IF line.kind = "scalar"
           THEN mpc' = "crashed" /\ UNCHANGED <<results, total, last>>
           ELSE \E crc \in {0, 1} : \E rrc \in {0, 1} : \E out \in Stdouts :
                  LET e == evaluate_entry(line, crc, rrc, out)
                  IN  IF e.raised
                      THEN mpc' = "crashed" /\ UNCHANGED <<results, total, last>>
                      ELSE /\ results' = [results EXCEPT ![e.r.status] = @ + 1]
                           /\ total' = total + 1
                           /\ last' = e.r
                           /\ UNCHANGED mpc
    /\ UNCHANGED <<lines, solverVars, concVars, envVars, scalaVars, pyVars, genVars>>

\* main: the file is exhausted, the summary is printed
Summary ==
    /\ mpc = "loop"
    /\ lineno = Len(lines)
    /\ mpc' = "done"
    /\ UNCHANGED <<lines, lineno, results, total, last>>
    /\ UNCHANGED <<solverVars, concVars, envVars, scalaVars, pyVars, genVars>>

CppNext == ProcessLine \/ Summary

CppSpec == CppInit /\ [][CppNext]_vars

(* --------------------- CPPTest/create_envs.py -------------------------- *)
\* data.get(key) of a key the entry does not have
Missing == "<missing>"

\* lib and ver as conditions: None and "" are false
Truthy(x) == x # Missing /\ x # ""

\* mutant: the pair is not looked up in seen
NeedsEnv_NoSeen(lib, ver, sn) == Truthy(lib) /\ Truthy(ver)

\* if lib and ver and (lib, ver) not in seen
NeedsEnv(lib, ver, sn) == Truthy(lib) /\ Truthy(ver) /\ <<lib, ver>> \notin sn

EnvLine(kind, lib, ver) == [kind |-> kind, library |-> lib, version |-> ver]

\* lines of a dataset: blank, not JSON, JSON but no object, and entries
EnvLinePool ==
    {EnvLine("blank", Missing, Missing), EnvLine("bad", Missing, Missing),
     EnvLine("scalar", Missing, Missing)}
        \cup {EnvLine("entry", lib, ver) :
                lib \in {"fmt", "boost", "", Missing}, ver \in {"9.1.0", "10.0.0", Missing}}

\* up to MaxLines lines, and a dataset where a pair comes back after another one
EnvData ==
    UNION {[1..n -> EnvLinePool] : n \in 0..MaxLines}
        \cup {<<EnvLine("entry", "fmt", "9.1.0"), EnvLine("entry", "boost", "9.1.0"),
                EnvLine("entry", "fmt", "9.1.0"), EnvLine("entry", "fmt", "10.0.0")>>}

EnvInit ==
    /\ SolverIdle
    /\ ConcIdle
    /\ CppIdle /\ ScalaIdle /\ PyIdle /\ GenIdle
    /\ elines \in EnvData
    /\ eno = 0
    /\ seen = {}
    /\ created = <<>>
    /\ epc = "loop"

\* main: one iteration of "for line in f"; create_env returns, or setup_fmt
\* re-raises CalledProcessError after the call was made
EnvProcessLine ==
    /\ epc = "loop"
    /\ eno < Len(elines)
    /\ eno' = eno + 1
    /\ LET line == elines[eno + 1]
       IN  IF line.kind \in {"blank", "bad"}
           THEN UNCHANGED <<seen, created, epc>>
           ELSE IF line.kind = "scalar"
           THEN epc' = "crashed" /\ UNCHANGED <<seen, created>>
           ELSE IF NeedsEnv(line.library, line.version, seen)
           THEN /\ seen' = seen \cup {<<line.library, line.version>>}
                /\ created' = Append(created, <<line.library, line.version>>)
                /\ \E ok \in BOOLEAN : epc' = IF ok THEN "loop" ELSE "crashed"
           ELSE UNCHANGED <<seen, created, epc>>
    /\ UNCHANGED <<elines, solverVars, concVars, cppVars, scalaVars, pyVars, genVars>>

\* main: the file is exhausted
EnvDone ==
    /\ epc = "loop"
    /\ eno = Len(elines)
    /\ epc' = "done"
    /\ UNCHANGED <<elines, eno, seen, created>>
    /\ UNCHANGED <<solverVars, concVars, cppVars, scalaVars, pyVars, genVars>>

EnvNext == EnvProcessLine \/ EnvDone

EnvSpec == EnvInit /\ [][EnvNext]_vars

(* ---------------- PythonTest/run_eval.py, write_answer_main ------------- *)
\* s.splitlines(): the pieces between "\n", no empty piece after a final "\n"
RECURSIVE SplitLines(_)
SplitLines(s) ==
    IF s = <<>> THEN <<>>
    ELSE IF Has(s, NL) THEN <<UpTo(s, NL)>> \o SplitLines(After(s, NL))
    ELSE <<s>>

\* "\n".join(ls)
RECURSIVE JoinLines(_)
JoinLines(ls) ==
    IF ls = <<>> THEN <<>>
    ELSE IF Len(ls) = 1 THEN ls[1]
    ELSE ls[1] \o <<NL>> \o JoinLines(Tail(ls))

\* the number of leading blanks of a line
RECURSIVE Leading(_)
Leading(l) == IF l # <<>> /\ Head(l) = Space THEN 1 + Leading(Tail(l)) ELSE 0

IsBlank(l) == \A i \in DOMAIN l : l[i] = Space

\* textwrap.dedent(solution).splitlines(): blank lines become empty, the other
\* lines lose the leading whitespace they all share
DedentLines(sol) ==
    LET ls == SplitLines(sol)
        full == {i \in DOMAIN ls : ~IsBlank(ls[i])}
        margin == IF full = {} THEN 0
                  ELSE CHOOSE n \in {Leading(ls[i]) : i \in full} :
                          \A i \in full : n <= Leading(ls[i])
    IN  [i \in DOMAIN ls |->
            IF IsBlank(ls[i]) THEN <<>> ELSE SubSeq(ls[i], margin + 1, Len(ls[i]))]

\* what the loop appends to new_lines for one line of starting_code
NewLines(line, sol) ==
    IF Has(line, PyStart)
    THEN LET indent == UpTo(line, PyStart)
         IN  IF IsBlank(indent)
             THEN [i \in DOMAIN DedentLines(sol) |-> indent \o DedentLines(sol)[i]]
             ELSE <<Replace(line, PyStart, sol)>>
    ELSE IF Has(line, PyEnd) THEN <<>>
    ELSE <<line>>

RECURSIVE AllNewLines(_, _)
AllNewLines(ls, sol) ==
    IF ls = <<>> THEN <<>> ELSE NewLines(Head(ls), sol) \o AllNewLines(Tail(ls), sol)

\* lines of a starting_code: code, the markers alone or indented, a body line,
\* code before the start marker
PyLinePool ==
    {<<1>>, <<Space, PyStart>>, <<Space, PyEnd>>, <<Space, 2>>, <<1, Space, PyStart>>}

PyTexts == {JoinLines(ls) : ls \in UNION {[1..n -> PyLinePool] : n \in 0..MaxPyLines}}

PySolutions == {<<>>, <<3>>, <<Space, 3, NL, Space, Space, 3>>}

PyInit ==
    /\ SolverIdle
    /\ ConcIdle
    /\ CppIdle /\ EnvIdle /\ ScalaIdle /\ GenIdle
    /\ wcode \in PyTexts
    /\ wsol \in PySolutions
    /\ written = <<>>
    /\ wpc = "ready"

\* write_answer_main(env_dir, starting_code, solution): the content of main.py
write_answer_main ==
    /\ wpc = "ready"
    /\ written' = JoinLines(AllNewLines(SplitLines(wcode), wsol))
    /\ wpc' = "written"
    /\ UNCHANGED <<wcode, wsol, solverVars, concVars, cppVars, envVars, scalaVars, genVars>>

PyNext == write_answer_main

PySpec == PyInit /\ [][PyNext]_vars

(* ------------- ScalaTest/create_envs.py and run_eval.py ----------------- *)
Lib(group, name, version, scope) ==
    [group |-> group, name |-> name, version |-> version, scope |-> scope]

\* normalize_lib(lib): .strip() of a value that is None raises AttributeError;
\* a missing group is "", a missing scope "Compile"
NormalizeRaises(lib) == lib.name = Missing \/ lib.version = Missing

normalize_lib(lib) ==
    [group |-> IF lib.group = Missing THEN "" ELSE lib.group,
     name |-> lib.name,
     version |-> lib.version,
     scope |-> IF lib.scope = Missing THEN "Compile" ELSE lib.scope]

\* resolve_coords(name): the group of a known artifact, else None
resolve_coords(name) ==
    IF name = "cats-core" THEN <<"org.typelevel", name>>
    ELSE IF name = "scalatest" THEN <<"org.scalatest", name>>
    ELSE IF name = "akka-actor" THEN <<"com.typesafe.akka", name>>
    ELSE <<Missing, name>>

\* mutant: libraries of scope Test are named too
build_env_name_KeepTest(scala_version, libraries) ==
    <<<<"scala", scala_version>>>>
        \o [i \in DOMAIN libraries |-> <<libraries[i].name, libraries[i].version>>]

\* build_env_name(scala_version, libraries): the parts that "-".join puts together
build_env_name(scala_version, libraries) ==
    LET named == SelectSeq(libraries, LAMBDA l : l.scope # "Test")
    IN  <<<<"scala", scala_version>>>>
            \o [i \in DOMAIN named |-> <<named[i].name, named[i].version>>]

ScalaTestLib == normalize_lib(Lib("org.scalatest", "scalatest", "3.2.18", "Test"))

HasScalaTest(libraries) == \E i \in DOMAIN libraries : libraries[i].name = "scalatest"

\* the single library of an item without 'libraries'
SingleLib(item) ==
    LET rc == resolve_coords(item.library)
        group == IF item.group \in {Missing, ""}
                 THEN (IF rc[1] = Missing THEN "" ELSE rc[1])
                 ELSE item.group
        name == IF item.group \in {Missing, ""} THEN rc[2] ELSE item.library
    IN  Lib(group, name, item.version, "Compile")

ListsLibraries(item) == item.libraries # <<>>

\* an exception before the name is computed: item["scala_version"], normalize_lib
ItemRaises(item) ==
    \/ item.scala_version = Missing
    \/ IF ListsLibraries(item)
       THEN \E i \in DOMAIN item.libraries : NormalizeRaises(item.libraries[i])
       ELSE NormalizeRaises(SingleLib(item))

\* create_envs: libraries of an item; scalatest is appended in both branches
LibrariesCreate(item) ==
    LET libs == IF ListsLibraries(item)
                THEN [i \in DOMAIN item.libraries |-> normalize_lib(item.libraries[i])]
                ELSE <<normalize_lib(SingleLib(item))>>
    IN  IF HasScalaTest(libs) THEN libs ELSE Append(libs, ScalaTestLib)

\* run_eval main: libraries of an item; scalatest is appended in the else branch only
LibrariesEval(item) ==
    IF ListsLibraries(item)
    THEN [i \in DOMAIN item.libraries |-> normalize_lib(item.libraries[i])]
    ELSE LET libs == <<normalize_lib(SingleLib(item))>>
         IN  IF HasScalaTest(libs) THEN libs ELSE Append(libs, ScalaTestLib)

Item(sv, libraries, library, version, group) ==
    [scala_version |-> sv, libraries |-> libraries, library |-> library,
     version |-> version, group |-> group]

\* 'libraries' of an item: absent or empty, one library, one library and
\* scalatest for tests, scalatest without a scope, a library of scope Test
LibraryLists ==
    {<<>>,
     <<Lib("org.typelevel", "cats-core", "2.9.0", Missing)>>,
     <<Lib("org.typelevel", "cats-core", "2.9.0", "Compile"),
       Lib("org.scalatest", "scalatest", "3.2.18", "Test")>>,
     <<Lib("org.scalatest", "scalatest", "3.2.17", Missing)>>,
     <<Lib("org.typelevel", "cats-core", "2.10.0", "Test")>>}

ItemPool ==
    {Item(sv, ls, lib, ver, g) :
        sv \in {"2.13.12", Missing}, ls \in LibraryLists,
        lib \in {"cats-core", "scalatest"}, ver \in {"2.9.0", Missing}, g \in {Missing}}
      \cup {Item("3.3.1", <<>>, "mylib", "1.0", "org.me")}

ScalaData == UNION {[1..n -> ItemPool] : n \in 0..MaxItems}

ScalaInit ==
    /\ SolverIdle
    /\ ConcIdle
    /\ CppIdle /\ EnvIdle /\ PyIdle /\ GenIdle
    /\ sitems \in ScalaData
    /\ env_map = {}
    /\ sno = 0
    /\ spc = "create"
    /\ env_name = <<>>

\* create_envs: one iteration of "for line in f"
CreateEnvsItem ==
    /\ spc = "create"
    /\ sno < Len(sitems)
    /\ sno' = sno + 1
    /\ LET item == sitems[sno + 1]
       IN  IF ItemRaises(item)
           THEN spc' = "crashed" /\ UNCHANGED env_map
           ELSE /\ env_map' = env_map \cup
                                 {build_env_name(item.scala_version, LibrariesCreate(item))}
                /\ UNCHANGED spc
    /\ UNCHANGED <<sitems, env_name, solverVars, concVars, cppVars, envVars, pyVars, genVars>>

\* create_envs returns env_map; main opens the dataset again
CreateEnvsReturn ==
    /\ spc = "create"
    /\ sno = Len(sitems)
    /\ spc' = "eval"
    /\ sno' = 0
    /\ UNCHANGED <<sitems, env_map, env_name, solverVars, concVars, cppVars, envVars, pyVars, genVars>>

\* main: one iteration of "for line in df" up to env_info = env_map[env_name]
EvalItem ==
    /\ spc = "eval"
    /\ sno < Len(sitems)
    /\ sno' = sno + 1
    /\ LET item == sitems[sno + 1]
           name == build_env_name(item.scala_version, LibrariesEval(item))
       IN  IF ItemRaises(item)
           THEN spc' = "crashed" /\ UNCHANGED env_name
           ELSE /\ env_name' = name
                /\ spc' = IF name \in env_map THEN "eval" ELSE "KeyError"
    /\ UNCHANGED <<sitems, env_map, solverVars, concVars, cppVars, envVars, pyVars, genVars>>

\* main: the dataset is exhausted
EvalDone ==
    /\ spc = "eval"
    /\ sno = Len(sitems)
    /\ spc' = "done"
    /\ UNCHANGED <<sitems, env_map, sno, env_name, solverVars, concVars, cppVars, envVars, pyVars, genVars>>

ScalaNext == CreateEnvsItem \/ CreateEnvsReturn \/ EvalItem \/ EvalDone

ScalaSpec == ScalaInit /\ [][ScalaNext]_vars

(* ------------- scripts/cc_vanila_gen.py, generate_single_library -------- *)
\* an item of the list the response parses to: a JSON object with its
\* example_id and solution (Missing: the key is absent), or something else
Obj(id, sol) == [object |-> TRUE, example_id |-> id, solution |-> sol]
NonObj == [object |-> FALSE, example_id |-> Missing, solution |-> Missing]

\* prompt_llm raises; extract_json_from_response returns None; it returns a
\* dict; it returns a list
Response(kind, items) == [kind |-> kind, items |-> items]

Responses ==
    {Response("raise", <<>>), Response("none", <<>>), Response("dict", <<>>),
     Response("list", <<>>),
     Response("list", <<Obj("a", "x")>>),
     Response("list", <<Obj("a", "x"), Obj("b", Missing)>>),
     Response("list", <<Obj(Missing, "y"), NonObj, Obj("b", "x")>>),
     Response("list", <<NonObj, Obj("a", "y")>>)}

\* the items written before item["old_api"] = ... raises TypeError on an item
\* that is no object
RECURSIVE Accepted(_)
Accepted(items) ==
    IF items = <<>> THEN <<>>
    ELSE IF ~Head(items).object THEN <<>>
    ELSE <<Head(items)>> \o Accepted(Tail(items))

DatasetLine(item) == [example_id |-> item.example_id, solution |-> item.solution, old_api |-> "api"]
GtLine(item) == [example_id |-> item.example_id, solution |-> item.solution]

\* mutant: the item is dumped to the dataset file before the metadata is set
OutLines_DumpFirst(r) ==
    IF r.kind # "list" THEN <<>>
    ELSE LET n == Len(Accepted(r.items))
             m == IF n < Len(r.items) THEN n + 1 ELSE n
         IN  [i \in 1..m |-> DatasetLine(r.items[i])]

\* the lines one response adds to the dataset file
OutLines(r) ==
    IF r.kind # "list" THEN <<>>
    ELSE [i \in DOMAIN Accepted(r.items) |-> DatasetLine(Accepted(r.items)[i])]

\* the lines one response adds to the ground-truth file
GtLines(r) ==
    IF r.kind # "list" THEN <<>>
    ELSE [i \in DOMAIN Accepted(r.items) |-> GtLine(Accepted(r.items)[i])]

GenInit ==
    /\ SolverIdle
    /\ ConcIdle
    /\ CppIdle /\ EnvIdle /\ ScalaIdle /\ PyIdle
    /\ llm \in UNION {[1..n -> Responses] : n \in 1..MaxEntries}
    /\ gno = 0
    /\ out_f = <<>>
    /\ gt_f = <<>>
    /\ gpc = "loop"

\* one iteration of "for entry in entries_to_process", the try block included
ProcessEntry ==
    /\ gpc = "loop"
    /\ gno < Len(llm)
    /\ gno' = gno + 1
    /\ out_f' = out_f \o OutLines(llm[gno + 1])
    /\ gt_f' = gt_f \o GtLines(llm[gno + 1])
    /\ UNCHANGED <<llm, gpc, solverVars, concVars, cppVars, envVars, scalaVars, pyVars>>

\* the loop is over, the files are closed
GenDone ==
    /\ gpc = "loop"
    /\ gno = Len(llm)
    /\ gpc' = "done"
    /\ UNCHANGED <<llm, gno, out_f, gt_f, solverVars, concVars, cppVars, envVars, scalaVars, pyVars>>

GenNext == ProcessEntry \/ GenDone

GenSpec == GenInit /\ [][GenNext]_vars

(* ======================= properties ==================================== *)
\* version ordering as the specification states it: release tuples compared
\* component by component, the shorter one padded with trailing zeros
PaddedLess(r, q) ==
    LET n == IF Len(r) >= Len(q) THEN Len(r) ELSE Len(q)
        a == Pad(r, n)
        b == Pad(q, n)
    IN  \E i \in 1..n : a[i] < b[i] /\ \A k \in 1..(i - 1) : a[k] = b[k]

\* the string parses and its release is below / above the release r
StrBelow(s, r) == ParseOK(s) /\ PaddedLess(parse_version(s).release, r)
StrAbove(s, r) == ParseOK(s) /\ PaddedLess(r, parse_version(s).release)

Returned == pc = "returned"
Called == fn # "none"

\* the bound strings of the input, field by field
Fields(d) == UNION {{d[i].deprecated_in, d[i].removed_in} : i \in DOMAIN d}

IsAbsent(s) == s = PyNone \/ s = <<>>
IsFinal(s) == ~IsAbsent(s) /\ ParseOK(s) /\ parse_version(s).pre = <<>>
IsPre(s) == ~IsAbsent(s) /\ ParseOK(s) /\ parse_version(s).pre # <<>>
IsBad(s) == ~IsAbsent(s) /\ ~ParseOK(s)

\* the final-release bounds of major m
FinalsOf(d, m) == {s \in Fields(d) : IsFinal(s) /\ parse_version(s).release[1] = m}
MajorsOf(d) == {parse_version(s).release[1] : s \in {x \in Fields(d) : IsFinal(x)}}

\* the input with the bounds in D removed (records left without a bound are
\* removed too)
RECURSIVE WithoutSet(_, _)
WithoutSet(d, D) ==
    IF d = <<>> THEN <<>>
    ELSE LET lo == IF Head(d).deprecated_in \in D THEN PyNone ELSE Head(d).deprecated_in
             hi == IF Head(d).removed_in \in D THEN PyNone ELSE Head(d).removed_in
         IN  (IF IsAbsent(lo) /\ IsAbsent(hi) THEN <<>> ELSE <<Record(lo, hi)>>)
             \o WithoutSet(Tail(d), D)

WithoutPre(d) == WithoutSet(d, {s \in Fields(d) : IsPre(s)})
WithoutBad(d) == WithoutSet(d, {s \in Fields(d) : IsBad(s)})

\* every list the called function can return for the input d
CallOf(f, d) == IF f = "generate_candidates" THEN CallVerify(d) ELSE CallTestVer(d)

\* C1: every midpoint candidate generate_candidates adds lies strictly between
\* the minimum and the maximum of its group (as stated; the gap-1 branch breaks it)
C1_MidStrictlyBetween ==
    (Returned /\ fn = "generate_candidates") =>
        \A m \in DOMAIN by_major :
            by_major[m].mid # PyNone =>
                /\ StrAbove(by_major[m].mid, by_major[m].min_v.release)
                /\ StrBelow(by_major[m].mid, by_major[m].max_v.release)

\* C2: a below-minimum candidate, when produced by either function, parses to a
\* version strictly below the minimum of its group
C2_PreMinBelowMin ==
    Returned =>
        \A m \in DOMAIN by_major :
            by_major[m].pre_min # PyNone =>
                StrBelow(by_major[m].pre_min, by_major[m].min_v.release)

C2_Witness ==
    /\ Returned
    /\ \E m \in DOMAIN by_major :
          /\ by_major[m].pre_min # PyNone
          /\ by_major[m].pre_min \in Range(result)
          /\ by_major[m].min_v.release[Len(by_major[m].min_v.release)] = 0

\* C3: for every major with a final-release bound, the string form of a maximum
\* of its bounds is in the returned list
C3_MaxInOutput ==
    Returned =>
        \A m \in MajorsOf(data) :
            \E s \in FinalsOf(data, m) :
                /\ \A x \in FinalsOf(data, m) :
                      ~PaddedLess(parse_version(s).release, parse_version(x).release)
                /\ Str(parse_version(s)) \in Range(result)

C3_Witness ==
    /\ Returned
    /\ fn = "generate_candidates"
    /\ Cardinality(MajorsOf(data)) = 2
    /\ \E m \in MajorsOf(data) : Cardinality(FinalsOf(data, m)) = 2

\* C4: the list generate_candidates returns is non-decreasing under version
\* ordering
C4_VerifySorted ==
    (Returned /\ fn = "generate_candidates") =>
        \A i \in 1..(Len(result) - 1) :
            /\ ParseOK(result[i]) /\ ParseOK(result[i + 1])
            /\ ~PaddedLess(parse_version(result[i + 1]).release,
                           parse_version(result[i]).release)

C4_Witness ==
    /\ Returned
    /\ fn = "generate_candidates"
    /\ Len(result) = 4
    /\ \E i \in 1..3 : Len(result[i]) # Len(result[i + 1])

\* C5: for every group whose minimum is below its maximum the returned list holds
\* a version strictly between the two (as stated; fails in the gap-1 branch)
C5_MidInOutput ==
    Returned =>
        \A m \in DOMAIN by_major :
            PaddedLess(by_major[m].min_v.release, by_major[m].max_v.release) =>
                \E c \in Range(result) :
                    /\ StrAbove(c, by_major[m].min_v.release)
                    /\ StrBelow(c, by_major[m].max_v.release)

\* C6: pre-release bounds do not influence the output (the call could return the
\* same list with every pre-release bound removed) and none is returned
C6_PreReleaseIgnored ==
    Returned =>
        /\ result \in CallOf(fn, WithoutPre(data))
        /\ \A c \in Range(result) : ~IsPre(c)

C6_Witness ==
    /\ Returned
    /\ result # <<>>
    /\ \E s \in Fields(data) : IsPre(s)

\* C7: the call never raises, and an unparseable bound is dropped: the result
\* is one the call returns without it
C7_NeverRaises ==
    Called =>
        /\ Returned
        /\ result \in CallOf(fn, WithoutBad(data))

C7_Witness ==
    /\ Returned
    /\ result # <<>>
    /\ \E s \in Fields(data) : IsBad(s)
    /\ \E s \in Fields(data) : s = <<>>

\* C8: with no record, or no bound that parses to a final release, the call
\* returns the empty list
C8_EmptyOutput ==
    (Called /\ \A s \in Fields(data) : ~IsFinal(s)) => (Returned /\ result = <<>>)

C8_Witness ==
    /\ Returned
    /\ result = <<>>
    /\ \E s \in Fields(data) : IsPre(s)
    /\ \E s \in Fields(data) : IsBad(s)

C8_WitnessNoRecord == Returned /\ data = <<>> /\ result = <<>>

\* C9: the returned list is a function of the input: no other list can be
\* returned for the same records (as stated; fails for generate_candidates when
\* two candidates compare equal)
C9_Deterministic ==
    Returned => \A r \in CallOf(fn, data) : r = result

C10_WitnessNone ==
    /\ Returned
    /\ \E m \in DOMAIN by_major :
          /\ by_major[m].min_v.release = <<0, 0, 0>>
          /\ by_major[m].pre_min = PyNone

(* ------------------------- claims C11 - C20 ----------------------------- *)
\* the zero-padded releases of a group's minimum and maximum, the first index
\* where they differ (0: none) and the gap there
PadLen(g) == IF Len(g.min_v.release) >= Len(g.max_v.release)
             THEN Len(g.min_v.release) ELSE Len(g.max_v.release)
PMin(g) == Pad(g.min_v.release, PadLen(g))
PMax(g) == Pad(g.max_v.release, PadLen(g))
DiffAt(g) ==
    IF PMin(g) = PMax(g) THEN 0
    ELSE CHOOSE i \in 1..PadLen(g) :
            PMin(g)[i] # PMax(g)[i] /\ \A k \in 1..(i - 1) : PMin(g)[k] = PMax(g)[k]
Gap(g) == IF DiffAt(g) = 0 THEN 0 ELSE PMax(g)[DiffAt(g)] - PMin(g)[DiffAt(g)]

\* the locals the named function computes for the versions vs
LocalsOf(f, vs) == IF f = "generate_candidates" THEN LocalsVerify(vs) ELSE LocalsTestVer(vs)

\* C11: with min < max and a gap above 1 at the first differing index i, the
\* midpoint is the minimum before i, min[i] + (max[i] - min[i]) \div 2 at i and
\* zero after i (in both functions)
C11_MidGapAboveOne ==
    Returned =>
        \A m \in DOMAIN by_major :
            LET g == by_major[m]
                i == DiffAt(g)
            IN  Gap(g) > 1 =>
                  /\ g.mid # PyNone
                  /\ ParseOK(g.mid)
                  /\ Len(parse_version(g.mid).release) <= PadLen(g)
                  /\ Pad(parse_version(g.mid).release, PadLen(g)) =
                        [k \in 1..PadLen(g) |->
                            IF k < i THEN PMin(g)[k]
                            ELSE IF k = i THEN PMin(g)[i] + (PMax(g)[i] - PMin(g)[i]) \div 2
                            ELSE 0]

C11_Witness ==
    /\ Returned
    /\ fn = "generate_candidates"
    /\ \E m \in DOMAIN by_major :
          /\ Gap(by_major[m]) > 2
          /\ DiffAt(by_major[m]) = 2
          /\ PMin(by_major[m])[3] > 0
          /\ PadLen(by_major[m]) = TrimLen + 1
          /\ Len(parse_version(by_major[m].mid).release) = TrimLen

\* C12: with min < max and a gap of 1 at the first differing index i, the
\* midpoint is the minimum's components up to i followed by 5, and it is in the
\* output (as stated; get_version_candidates produces none)
C12_MidGapOne ==
    Returned =>
        \A m \in DOMAIN by_major :
            LET g == by_major[m]
            IN  Gap(g) = 1 =>
                  /\ g.mid # PyNone
                  /\ ParseOK(g.mid)
                  /\ parse_version(g.mid).release = SubSeq(PMin(g), 1, DiffAt(g)) \o <<5>>
                  /\ g.mid \in Range(result)

\* C13: a group whose minimum equals its maximum gets no midpoint and the call
\* returns; a single group holding only 1.2.0 yields exactly 1.1.0, 1.2.0
C13_Degenerate ==
    Called =>
        /\ Returned
        /\ \A m \in DOMAIN by_major :
              ~PaddedLess(by_major[m].min_v.release, by_major[m].max_v.release)
                  => by_major[m].mid = PyNone
        /\ (data # <<>> /\ \A s \in Fields(data) : s = Join(<<1, 2, 0>>))
              => result = <<Join(<<1, 1, 0>>), Join(<<1, 2, 0>>)>>

C13_Witness ==
    /\ Returned
    /\ data # <<>>
    /\ \A s \in Fields(data) : s = Join(<<1, 2, 0>>)
    /\ by_major[1].mid = PyNone
    /\ Len(result) = 2

C15_NoDuplicates ==
    Returned =>
        \A i \in DOMAIN result : \A j \in DOMAIN result : result[i] = result[j] => i = j

C15_Witness ==
    /\ Returned
    /\ fn = "get_version_candidates"
    /\ \E m \in DOMAIN by_major : \E k \in DOMAIN by_major :
          m # k /\ by_major[m].pre_min = Str(by_major[k].max_v)

\* C16: every returned string parses, to a final release, and writing the parsed
\* release back gives the string
C16_RoundTrip ==
    Returned =>
        \A c \in Range(result) :
            /\ ParseOK(c)
            /\ parse_version(c).pre = <<>>
            /\ Join(parse_version(c).release) = c

C16_Witness ==
    /\ Returned
    /\ \E c \in Range(result) : Len(parse_version(c).release) = TrimLen + 1
    /\ \E c \in Range(result) : \E i \in DOMAIN c : c[i] = MidValue

\* C17: the locals of a group are those the function computes when every bound
\* of another major is removed from the input
C17_GroupFrame ==
    Returned =>
        \A m \in DOMAIN by_major :
            LET others == {s \in Fields(data) :
                              IsFinal(s) /\ parse_version(s).release[1] # m}
                alone == LocalsOf(fn, Extract(WithoutSet(data, others)).vs)
            IN  DOMAIN alone = {m} /\ alone[m] = by_major[m]

C17_Witness ==
    /\ Returned
    /\ Cardinality(DOMAIN by_major) = 2
    /\ \E m \in DOMAIN by_major : by_major[m].mid # PyNone

\* C19: the list get_version_candidates returns is non-decreasing under version
\* ordering (as stated; the strings are sorted as strings, so 1.10.0 comes
\* before 1.8.0)
C19_TestVerSorted ==
    (Returned /\ fn = "get_version_candidates") =>
        \A i \in 1..(Len(result) - 1) :
            ~PaddedLess(parse_version(result[i + 1]).release,
                        parse_version(result[i]).release)

\* C20: the two functions agree, group by group, on the below-minimum string and
\* on the maximum string, and with a gap above 1 on the midpoint as a version
C20_SameSharedSteps ==
    Returned =>
        LET other == IF fn = "generate_candidates"
                     THEN LocalsTestVer(Extract(data).vs)
                     ELSE LocalsVerify(Extract(data).vs)
        IN  /\ DOMAIN other = DOMAIN by_major
            /\ \A m \in DOMAIN by_major :
                  /\ other[m].pre_min = by_major[m].pre_min
                  /\ Str(other[m].max_v) = Str(by_major[m].max_v)
                  /\ Gap(by_major[m]) > 1 =>
                        /\ other[m].mid # PyNone /\ by_major[m].mid # PyNone
                        /\ ~PaddedLess(parse_version(other[m].mid).release,
                                       parse_version(by_major[m].mid).release)
                        /\ ~PaddedLess(parse_version(by_major[m].mid).release,
                                       parse_version(other[m].mid).release)

C20_Witness ==
    /\ Returned
    /\ fn = "generate_candidates"
    /\ \E m \in DOMAIN by_major :
          /\ Gap(by_major[m]) > 1
          /\ by_major[m].mid # LocalsTestVer(Extract(data).vs)[m].mid

\* C18: whatever the interleaving of two invocations, on the same list or on
\* different lists, an invocation that has returned left its argument as it was
\* passed and returned a list the function returns for that argument alone; none
\* raises
C18_Isolated ==
    \A p \in Invocations :
        /\ frame[p].pc # "raised"
        /\ frame[p].pc = "done" =>
              /\ args[frame[p].ref] = frame[p].arg0
              /\ frame[p].out \in CallOf(frame[p].fn, frame[p].arg0)

\* one invocation has returned candidates while the other, called on the same
\* list with the other function, is between two iterations of its loop
C18_Witness ==
    /\ frame[1].pc = "done"
    /\ frame[1].out # <<>>
    /\ frame[2].pc = "extract"
    /\ frame[2].i = 2
    /\ Len(args[frame[2].ref]) = 2
    /\ cells[2] # <<>>
    /\ frame[2].ref = frame[1].ref
    /\ frame[2].fn # frame[1].fn

(* ------------------------- claims C21 - C23 ----------------------------- *)
\* the records in the opposite order
Reversed(d) == [k \in DOMAIN d |-> d[Len(d) + 1 - k]]

\* every record with its two bound strings exchanged
Swapped(d) == [k \in DOMAIN d |-> Record(d[k].removed_in, d[k].deprecated_in)]

\* C21: the returned list is one the function also returns for the records in
\* the opposite order and for the records with their bounds exchanged (as
\* stated; min and max pick the first of two equal versions, so 1.2 / 1.2.0
\* gives another list than 1.2.0 / 1.2)
C21_OrderIndependent ==
    Returned =>
        /\ result \in CallOf(fn, Reversed(data))
        /\ result \in CallOf(fn, Swapped(data))

\* C22: the list generate_candidates returns is strictly increasing under
\* version ordering (as stated; the set holds strings, so 1.0 and 1.0.0 are
\* both returned)
C22_VerifyStrictlySorted ==
    (Returned /\ fn = "generate_candidates") =>
        \A i \in 1..(Len(result) - 1) :
            PaddedLess(parse_version(result[i]).release,
                       parse_version(result[i + 1]).release)

\* C23: every midpoint has the major of its group and lies strictly below the
\* group's maximum, whether the gap is above 1 or equal to 1
C23_MidBelowMax ==
    Returned =>
        \A m \in DOMAIN by_major :
            by_major[m].mid # PyNone =>
                /\ ParseOK(by_major[m].mid)
                /\ parse_version(by_major[m].mid).release[1] = m
                /\ get_major(by_major[m].max_v) = m
                /\ PaddedLess(parse_version(by_major[m].mid).release,
                              by_major[m].max_v.release)

C23_Witness ==
    /\ Returned
    /\ \E m \in DOMAIN by_major : Gap(by_major[m]) = 1 /\ by_major[m].mid # PyNone
    /\ \E m \in DOMAIN by_major : Gap(by_major[m]) > 1 /\ by_major[m].mid # PyNone

(* ------------------------- claims C24 - C30 ----------------------------- *)
\* C24: evaluate_entry returns PASS only when the compiler and the program both
\* exited with 0 and every expected string is in the output, and a program that
\* exits with another code gives FAIL_RUNTIME (as stated; the exit code of the
\* program is never looked at)
C24_PassNeedsCleanExit ==
    /\ last.status = "PASS" =>
          /\ last.compile_rc = 0
          /\ last.run_rc = 0
          /\ \A k \in DOMAIN last.expected : Contains(Strip(last.stdout), last.expected[k])
    /\ (last.ran /\ last.run_rc # 0) => last.status = "FAIL_RUNTIME"

\* the text after the first end marker that follows the first start marker
AfterEndAfterStart(s) == After(After(s, CppStart), CppEnd)

\* C25: for a starting_code holding both markers, evaluate_entry raises nothing
\* and writes the text before the first start marker, a newline, the solution, a
\* newline and the text after the first end marker that follows that start
\* marker (as stated; the end marker before the start marker raises IndexError)
C25_InjectBetweenMarkers ==
    \A k \in 1..lineno :
        LET e == lines[k]
        IN  (/\ e.kind = "entry" /\ e.language = "C++" /\ e.env
             /\ Has(e.starting_code, CppStart) /\ Has(e.starting_code, CppEnd)) =>
               /\ mpc # "crashed"
               /\ (k = lineno /\ last.status # "none") =>
                     last.full_code = UpTo(e.starting_code, CppStart) \o <<NL>> \o e.solution
                                         \o <<NL>> \o AfterEndAfterStart(e.starting_code)

RECURSIVE SumOver(_, _)
SumOver(f, S) ==
    IF S = {} THEN 0
    ELSE LET s == CHOOSE x \in S : TRUE IN f[s] + SumOver(f, S \ {s})

\* C28: Total is the sum of the six counters, and it counts every line read
\* that is valid JSON and no other (as stated; a valid line on which
\* evaluate_entry raises ends main without being counted)
C28_TotalIsSum ==
    /\ total = SumOver(results, Statuses)
    /\ total = Cardinality({k \in 1..lineno : lines[k].kind \in {"scalar", "entry"}})

\* the (library, version) pairs of the first n lines that are entries with both
\* values present, each once, in order of first occurrence
RECURSIVE FirstPairs(_, _)
FirstPairs(ls, n) ==
    IF n = 0 THEN <<>>
    ELSE LET before == FirstPairs(ls, n - 1)
             l == ls[n]
             pair == <<l.library, l.version>>
         IN  IF /\ l.kind = "entry"
                /\ l.library \notin {Missing, ""}
                /\ l.version \notin {Missing, ""}
                /\ \A k \in DOMAIN before : before[k] # pair
             THEN Append(before, pair)
             ELSE before

\* C30: the calls of create_env made so far are the distinct (library, version)
\* pairs of the lines read, each once, in order of first occurrence; an entry
\* without a library or a version adds no call
C30_CreateOncePerPair ==
    /\ created = FirstPairs(elines, eno)
    /\ \A i \in DOMAIN created : \A k \in DOMAIN created : created[i] = created[k] => i = k

C30_Witness ==
    /\ epc = "done"
    /\ Len(elines) = 4
    /\ Len(created) = 3

\* the lines of starting_code holding the start marker, and the end marker
StartLines(ls) == {i \in DOMAIN ls : Has(ls[i], PyStart)}
EndLines(ls) == {i \in DOMAIN ls : Has(ls[i], PyEnd)}

\* C26: with one start-marker line (the marker after blanks only) and one
\* end-marker line below it, main.py is the lines above the start line, the
\* dedented solution lines each behind the marker's indentation, and the lines
\* below the end line; no line between the two remains (as stated; the lines
\* between the markers are kept)
C26_RegionReplaced ==
    LET ls == SplitLines(wcode) IN
    (/\ wpc = "written"
     /\ Cardinality(StartLines(ls)) = 1
     /\ Cardinality(EndLines(ls)) = 1
     /\ \E a \in StartLines(ls) : \E b \in EndLines(ls) :
            a < b /\ IsBlank(UpTo(ls[a], PyStart))) =>
        LET a == CHOOSE i \in StartLines(ls) : TRUE
            b == CHOOSE i \in EndLines(ls) : TRUE
            indent == UpTo(ls[a], PyStart)
            sol == DedentLines(wsol)
        IN  written = JoinLines(SubSeq(ls, 1, a - 1)
                                    \o [i \in DOMAIN sol |-> indent \o sol[i]]
                                    \o SubSeq(ls, b + 1, Len(ls)))

\* C27: after every entry, the dataset file and the ground-truth file have the
\* same number of lines and line i of the second carries the example_id and the
\* solution of line i of the first
C27_FilesAligned ==
    /\ Len(out_f) = Len(gt_f)
    /\ \A i \in DOMAIN out_f :
          /\ i \in DOMAIN gt_f
          /\ gt_f[i].example_id = out_f[i].example_id
          /\ gt_f[i].solution = out_f[i].solution

\* a response with an item that is no object after an object was processed,
\* another response followed, and lines were written for both
C27_Witness ==
    /\ gpc = "done"
    /\ gno = 2
    /\ \E i \in DOMAIN llm[1].items : i > 1 /\ ~llm[1].items[i].object
    /\ llm[2].kind = "list"
    /\ Len(out_f) = 3

\* C29: the name main computes for an item is a key of the env_map create_envs
\* built from the same dataset, so env_map[env_name] raises no KeyError
C29_EnvNameIsKey ==
    /\ spc # "KeyError"
    /\ (spc \in {"eval", "done"} /\ sno > 0) => env_name \in env_map

\* an item that lists 'libraries' without scalatest and an item with a single
\* 'library' were both looked up
C29_Witness ==
    /\ spc = "done"
    /\ Len(sitems) = 2
    /\ ListsLibraries(sitems[1]) /\ ~HasScalaTest(sitems[1].libraries)
    /\ ~ListsLibraries(sitems[2])
    /\ Cardinality(env_map) = 2

=============================================================================
